---- MODULE Spec2Model ----
(***************************************************************************)
(* Model of braiser's task orchestration: the two BackgroundService        *)
(* classes of src/unnamed/part_001 (lines 1-593, called service "A"; and   *)
(* lines 594-1099, called service "B"), the AIClient of                    *)
(* src/unnamed/part_003 and the ContentScript of src/src/content/index.ts. *)
(***************************************************************************)
EXTENDS Integers, Sequences, FiniteSets, TLC

VARIABLES
    svc,      \* which BackgroundService class runs: "A" or "B"
    bg,       \* the BackgroundService object's fields, and ev: the events of the last step
    ai,       \* the AIClient object's fields
    chains,   \* the suspended async call chains of the service (awaits in flight)
    timers,   \* the live setTimeout timers of handlePageStateUpdate: id -> captured state
    gh,       \* history: counts and observations the properties speak about
    cs,       \* the ContentScript object's fields, its document and its waits
    trace     \* history of a scenario: the STORE requests applied to the
              \* AIClient, or the page states the content script delivered

vars == << svc, bg, ai, chains, timers, gh, cs, trace >>

(***************************************************************************)
(* Bounds of the model                                                     *)
(***************************************************************************)
MaxChains == 2      \* async call chains in flight at once

MaxTimers == 2      \* debounce timers pending at once

MaxSteps == 5       \* answers of the oracle per task, dispatch scenario

MaxReplies == 2     \* answers of the oracle per task, other scenarios

MaxLogs == 4        \* log entries Stop may pile up in service B

MaxTrace == 3       \* entries of one history kept in trace

\* The sends and re-injections of one dispatch are counted up to MaxSends.
MaxSends == 3

MaxListeners == 2   \* onUpdated listeners that timed-out navigations left behind

Null == "null"

None == "none"

Tab == "tab"

Win == "win"

Prompts == {"p1"}

Observations == {"A", "B"}

ChainIds == 1 .. MaxChains

TimerIds == 1 .. MaxTimers

(***************************************************************************)
(* Text.  A JavaScript string is kept run-length encoded: a sequence of    *)
(* runs [c, n] (character c repeated n >= 1 times) in which adjacent runs  *)
(* differ in c, so that equal strings have equal encodings and a string of *)
(* 2000 characters is one run.                                             *)
(***************************************************************************)
Run(c, n) == [c |-> c, n |-> n]

Str(c) == << Run(c, 1) >>

Rep(c, n) == IF n = 0 THEN << >> ELSE << Run(c, n) >>

EmptyStr == << >>

RECURSIVE StrLen(_)
StrLen(t) == IF t = << >> THEN 0 ELSE Head(t).n + StrLen(Tail(t))

StrCat(a, b) ==
    IF a = << >> THEN b
    ELSE IF b = << >> THEN a
    ELSE IF a[Len(a)].c = b[1].c
         THEN SubSeq(a, 1, Len(a) - 1)
              \o << Run(b[1].c, a[Len(a)].n + b[1].n) >>
              \o Tail(b)
         ELSE a \o b

RECURSIVE StrSlice(_, _)
StrSlice(t, k) ==
    IF t = << >> \/ k <= 0 THEN << >>
    ELSE IF Head(t).n >= k THEN << Run(Head(t).c, k) >>
    ELSE << Head(t) >> \o StrSlice(Tail(t), k - Head(t).n)

(***************************************************************************)
(* AIClient (src/unnamed/part_003)                                         *)
(***************************************************************************)
MAX_STORED_LENGTH == 2000

MAX_PRINT_LENGTH == 2000

validateStoredData(text) ==
    IF StrLen(text) > MAX_STORED_LENGTH
    THEN StrSlice(text, MAX_STORED_LENGTH)
    ELSE text

validatePrintData(text) ==
    IF StrLen(text) > MAX_PRINT_LENGTH
    THEN StrSlice(text, MAX_PRINT_LENGTH)
    ELSE text

\* A mutant of storeText: append mode concatenates without the line break.
storeTextNoBreak(stored, text, append) ==
    IF append /\ stored # EmptyStr
    THEN StrCat(stored, validateStoredData(text))
    ELSE validateStoredData(text)

\* The STORE branch of getNextAction: the new value of currentStoredData.
storeText(stored, text, append) ==
    IF append /\ stored # EmptyStr
    THEN StrCat(StrCat(stored, Str("\n")), validateStoredData(text))
    ELSE validateStoredData(text)

\* What getNextAction does to the AIClient and to the parsed response once
\* the provider's completion has been parsed into `action`.
handleParsed(client, action) ==
    IF action.type = "STORE"
    THEN [client |-> [client EXCEPT !.currentStoredData =
                         storeText(client.currentStoredData, action.text,
                                   action.append)],
          action |-> action]
    ELSE IF action.type = "PRINT"
    THEN [client |-> client,
          action |-> [action EXCEPT !.text = validatePrintData(action.text)]]
    ELSE IF action.type \in {"COMPLETE", "FAILED"}
    THEN [client |-> [client EXCEPT !.currentStoredData = EmptyStr],
          action |-> action]
    ELSE [client |-> client, action |-> action]

AIClientInit == [currentStoredData |-> EmptyStr]

(***************************************************************************)
(* ExecutionState and its updates                                          *)
(***************************************************************************)
\* A log entry: message is the fixed part of the text, arg the action type or
\* reason it names, text the payload of a PRINT.
Log(type, message, arg) ==
    [type |-> type, message |-> message, arg |-> arg, text |-> EmptyStr]

TextLog(text) ==
    [type |-> "info", message |-> "print", arg |-> "", text |-> text]

NoAction == [type |-> "none"]

ExecutionStateInit ==
    [status |-> "idle", currentStep |-> 0, totalSteps |-> 0,
     currentAction |-> NoAction, error |-> None, logs |-> << >>]

emit(s, e) == [s EXCEPT !.ev = Append(@, e)]

\* A publish that replaces the state by the update instead of merging.
updateExecutionStateReplaces(s, updates) ==
    LET replaced == [f \in DOMAIN s.executionState |->
                        IF f = "totalSteps" THEN 0
                        ELSE IF f \in DOMAIN updates THEN updates[f]
                        ELSE ExecutionStateInit[f]]
    IN  emit([s EXCEPT !.executionState = replaced], "publish")

\* updateExecutionState: merge the partial update, force totalSteps to 0 and
\* broadcast the snapshot (a failed broadcast is caught and only warned about).
\* published.state is the snapshot broadcast last, kept where published.on.
updateExecutionState(s, updates) ==
    LET merged == [f \in DOMAIN s.executionState |->
                      IF f = "totalSteps" THEN 0
                      ELSE IF f \in DOMAIN updates THEN updates[f]
                      ELSE s.executionState[f]]
    IN  emit([s EXCEPT !.executionState = merged,
                       !.published.state =
                           IF s.published.on THEN merged ELSE @],
             "publish")

pushLog(s, entry) ==
    [s EXCEPT !.executionState.logs = Append(@, entry)]

withLog(s, entry) == Append(s.executionState.logs, entry)

(***************************************************************************)
(* Suspended call chains.  A chain is one async call stack of the service  *)
(* parked at an await: pc names the await, origin the handler that started *)
(* the chain, action the action being dispatched, attempts the retry       *)
(* loop's counter, args the arguments of the oracle call in flight.        *)
(***************************************************************************)
NoArgs == [prompt |-> Null, pageState |-> Null,
           lastResult |-> [success |-> TRUE, error |-> None]]

Suspend(pc, action, attempts, args) ==
    [pc |-> pc, origin |-> None, action |-> action, attempts |-> attempts,
     args |-> args, err |-> None]

Done == Suspend("done", NoAction, 0, NoArgs)

\* The chain ended by an exception that propagates to the handler.
Thrown(message) == [Done EXCEPT !.err = message]

IdleChain == Suspend("idle", NoAction, 0, NoArgs)

ExecutorTypes == {"CLICK", "TYPE", "SUBMIT", "SCROLL", "HOVER"}

(***************************************************************************)
(* BackgroundService A (src/unnamed/part_001, lines 1-593)                 *)
(***************************************************************************)
MAX_ERRORS == 5

BackgroundServiceInit ==
    [executionState |-> ExecutionStateInit,
     currentTask |-> Null,
     lastPageState |-> Null,
     lastActionResult |-> [success |-> TRUE, error |-> None],
     contentScriptReadyTabs |-> {},
     errorCount |-> 0,
     targetTabId |-> Null,
     windowId |-> Null,
     pageStateUpdateTimeout |-> 0,
     published |-> [on |-> FALSE, state |-> ExecutionStateInit],
     late |-> [listeners |-> 0, settling |-> 0],
     ev |-> << >>]

\* A mutant of stopExecution: the status is left as it is.
stopExecutionKeepsStatus(s) == [s EXCEPT !.errorCount = 0]

stopExecution(s) ==
    [s EXCEPT !.executionState.status = "idle", !.errorCount = 0]

requestNextAction(s) ==
    IF s.currentTask = Null
    THEN [s |-> s, k |-> Done]
    ELSE [s |-> emit(s, "oracle"),
          k |-> Suspend("oracle", NoAction, 0,
                        [prompt |-> s.currentTask,
                         pageState |-> s.lastPageState,
                         lastResult |-> s.lastActionResult])]

\* A mutant of afterPerform: a success leaves the error count as it is.
afterPerformKeepsCount(s, success, error) ==
    LET s1 == [emit(s, IF success THEN "success" ELSE "failure") EXCEPT
                  !.errorCount = IF success THEN @ ELSE @ + 1,
                  !.lastActionResult =
                      [success |-> success,
                       error |-> IF success THEN None ELSE error]]
    IN  IF ~ success /\ s1.errorCount >= MAX_ERRORS
        THEN [s |-> stopExecution(emit(s1, "trip")), k |-> Done]
        ELSE IF s1.executionState.status = "running"
             THEN requestNextAction(s1)
             ELSE [s |-> s1, k |-> Done]

\* A mutant of afterPerform: a failure is not counted against the budget.
afterPerformUncounted(s, success, error) ==
    [s |-> emit(s, IF success THEN "success" ELSE "failure"), k |-> Done]

\* executeAction after `await this.performAction(action)` has settled:
\* the error budget, lastActionResult and the next oracle call.
afterPerform(s, success, error) ==
    IF success
    THEN LET s1 == [emit(s, "success") EXCEPT
                       !.errorCount = 0,
                       !.lastActionResult = [success |-> TRUE, error |-> None]]
         IN  IF s1.executionState.status = "running"
             THEN requestNextAction(s1)
             ELSE [s |-> s1, k |-> Done]
    ELSE LET s1 == [emit(s, "failure") EXCEPT !.errorCount = @ + 1]
         IN  IF s1.errorCount >= MAX_ERRORS
             THEN [s |-> stopExecution(
                            pushLog([emit(s1, "trip") EXCEPT
                                        !.executionState.status = "failed"],
                                    Log("string",
                                        "Task failed due to too many errors.",
                                        ""))),
                   k |-> Done]
             ELSE LET s2 == [s1 EXCEPT !.lastActionResult =
                                [success |-> FALSE, error |-> error]]
                  IN  IF s2.executionState.status = "running"
                      THEN requestNextAction(s2)
                      ELSE [s |-> s2, k |-> Done]

\* executeInTab up to its first await: the readiness wait or the send.
executeInTab(s, action) ==
    IF Tab \in s.contentScriptReadyTabs
    THEN [s |-> emit(s, "send"), k |-> Suspend("send", action, 0, NoArgs)]
    ELSE [s |-> s, k |-> Suspend("ready", action, 0, NoArgs)]

performAction(s, action) ==
    IF action.type \in ExecutorTypes
    THEN executeInTab(s, action)
    ELSE IF action.type = "NAVIGATE"
    THEN [s |-> emit(s, "navigate"), k |-> Suspend("nav", action, 0, NoArgs)]
    ELSE IF action.type = "PRINT"
    THEN afterPerform(
             updateExecutionState(s, [logs |-> withLog(s, TextLog(action.text))]),
             TRUE, None)
    ELSE IF action.type = "COMPLETE"
    THEN afterPerform(
             updateExecutionState(s,
                 [status |-> "idle",
                  logs |-> withLog(s, Log("info", "Task completed successfully", ""))]),
             TRUE, None)
    ELSE IF action.type = "FAILED"
    THEN afterPerform(
             updateExecutionState(s,
                 [status |-> "error",
                  error |-> action.reason,
                  logs |-> withLog(s, Log("error", action.reason, ""))]),
             TRUE, None)
    ELSE afterPerform(s, TRUE, None)    \* STORE: already handled by AIClient

executeAction(s, action) ==
    IF s.targetTabId = Null
    THEN [s |-> emit(s, "throw"), k |-> Done]   \* caught and logged to the console by the caller
    ELSE performAction(
             emit(emit(pushLog([s EXCEPT !.executionState.currentStep = @ + 1],
                               Log("string", "Executing action", action.type)),
                       "dispatch"), action.type),
             action)

\* requestNextAction / the timer callback after the oracle has answered with
\* an action (the parser never returns a response without one).
onResponse(s, action) ==
    executeAction(
        updateExecutionState(s,
            [currentAction |-> action,
             logs |-> withLog(s, Log("info", "AI Response", "reasoning"))]),
        action)

handleNewTask(s, prompt) ==
    LET s1 == stopExecution(s)
        s2 == [s1 EXCEPT
                  !.executionState = [ExecutionStateInit EXCEPT !.status = "running"],
                  !.currentTask = prompt,
                  !.errorCount = 0]
    IN  requestNextAction(emit(s2, "accept"))

(***************************************************************************)
(* BackgroundService B (src/unnamed/part_001, lines 594-1099)              *)
(***************************************************************************)
maxAttempts == 3

stopExecutionB(s) ==
    [s EXCEPT !.currentTask = Null,
              !.executionState =
                  [ExecutionStateInit EXCEPT
                      !.logs = withLog(s, Log("info",
                                              "Task execution stopped by user", ""))],
              !.lastPageState = Null]

getActionDescription(action) ==
    CASE action.type = "NAVIGATE" -> "Navigating to"
      [] action.type = "CLICK" -> "Clicking element"
      [] action.type = "TYPE" -> "Typing into"
      [] action.type = "SUBMIT" -> "Submitting form"
      [] action.type = "SCROLL" -> "Scrolling"
      [] action.type = "HOVER" -> "Hovering over element"
      [] action.type = "STORE" -> "Storing data"
      [] action.type = "PRINT" -> "Displaying information to user"
      [] action.type = "COMPLETE" -> "Task completed successfully"
      [] action.type = "FAILED" -> "Task failed"
      [] OTHER -> "JSON"

\* The catch block of the onMessage handler.
messageCatch(s, errorMessage) ==
    updateExecutionState(emit(s, "reject"),
        [status |-> "error",
         error |-> errorMessage,
         logs |-> withLog(s, Log("error", errorMessage, ""))])

\* The catch block of handlePageStateUpdate.
pageCatch(s, errorMessage) ==
    updateExecutionState(s, [status |-> "error", error |-> errorMessage])

\* executeAction returns to its caller / throws to it.
returned(s) == [s |-> emit(s, "success"), k |-> Done]

threw(s, error) == [s |-> emit(s, "failure"), k |-> Thrown(error)]

\* A mutant of attemptB: every pass through the loop after the first logs
\* the description of the action again.
attemptBLogs(s, action, attempts) ==
    LET s0 == IF attempts > 0
              THEN updateExecutionState(s,
                       [logs |-> withLog(s, Log("info",
                                                getActionDescription(action),
                                                action.type))])
              ELSE s
    IN  IF action.type \in ExecutorTypes
        THEN [s |-> emit(s0, "send"), k |-> Suspend("send", action, attempts, NoArgs)]
        ELSE returned(s0)

\* One pass through the switch of the retry loop.
attemptB(s, action, attempts) ==
    IF action.type \in ExecutorTypes
    THEN [s |-> emit(s, "send"), k |-> Suspend("send", action, attempts, NoArgs)]
    ELSE IF action.type = "COMPLETE"
    THEN returned(updateExecutionState(s,
                    [status |-> "idle",
                     logs |-> withLog(s, Log("info", "Task completed successfully", ""))]))
    ELSE IF action.type = "FAILED"
    THEN returned(updateExecutionState(s,
                    [status |-> "error",
                     error |-> action.reason,
                     logs |-> withLog(s, Log("error", action.reason, ""))]))
    ELSE returned(s)

executeActionB(s, action) ==
    IF s.targetTabId = Null
    THEN [s |-> s, k |-> Thrown("No target tab found")]
    ELSE LET s1 == emit(emit(updateExecutionState(s,
                                 [currentAction |-> action,
                                  logs |-> withLog(s, Log("info",
                                                          getActionDescription(action),
                                                          action.type))]),
                             "dispatch"), action.type)
         IN  IF action.type = "STORE"
             THEN returned(s1)
             ELSE IF action.type = "PRINT"
             THEN returned(updateExecutionState(s1,
                             [logs |-> withLog(s1, TextLog(action.text))]))
             ELSE IF action.type = "NAVIGATE"
             THEN [s |-> emit(s1, "navigate"),
                   k |-> Suspend("nav", action, 0, NoArgs)]
             ELSE attemptB(s1, action, 0)

\* The catch block of the retry loop after a failed attempt.
attemptFailedB(s, action, attempts, error) ==
    IF attempts + 1 = maxAttempts
    THEN threw(emit(s, "attemptFailed"), error)
    ELSE [s |-> emit(s, "attemptFailed"),
          k |-> Suspend("backoff", action, attempts + 1, NoArgs)]

\* handleNewTask up to its oracle call.
handleNewTaskB(s, prompt) ==
    IF s.executionState.status = "running"
    THEN [s |-> s, k |-> Thrown("A task is already running.")]
    ELSE IF s.targetTabId = Null
    THEN [s |-> s, k |-> Thrown("No target tab found")]
    ELSE [s |-> emit(emit([s EXCEPT !.currentTask = prompt,
                                    !.lastPageState = Null],
                          "accept"), "oracle"),
          k |-> Suspend("oracle", NoAction, 0,
                        [prompt |-> prompt, pageState |-> Null,
                         lastResult |-> [success |-> TRUE, error |-> None]])]

\* handleNewTask once the oracle has answered.
onFirstResponseB(s, prompt, action) ==
    executeActionB(
        updateExecutionState([s EXCEPT !.currentTask = prompt],
            [status |-> "running",
             currentStep |-> 1,
             totalSteps |-> 1,
             currentAction |-> action,
             logs |-> << Log("info", "Starting task", prompt) >>]),
        action)

\* handlePageStateUpdate up to its oracle call.
handlePageStateUpdateB(s, state) ==
    LET s1 == emit([s EXCEPT !.lastPageState = state], "deliver")
    IN  IF s1.currentTask # Null /\ s1.executionState.status = "running"
        THEN [s |-> emit(s1, "oracle"),
              k |-> Suspend("oracle", NoAction, 0,
                            [prompt |-> s1.currentTask, pageState |-> state,
                             lastResult |-> [success |-> TRUE, error |-> None]])]
        ELSE [s |-> s1, k |-> Done]

\* handlePageStateUpdate once the oracle has answered.
onResponseB(s, action) ==
    executeActionB(
        updateExecutionState(s,
            [currentAction |-> action,
             logs |-> withLog(s, Log("info", "AI Response", "reasoning"))]),
        action)

\* stopExecution of the service that runs.
stopExec(s) == IF svc = "A" THEN stopExecution(s) ELSE stopExecutionB(s)

(***************************************************************************)
(* History                                                                 *)
(***************************************************************************)
Count(seq, e) == Cardinality({i \in DOMAIN seq : seq[i] = e})

Has(seq, e) == \E i \in DOMAIN seq : seq[i] = e

\* The history a run keeps: a run that watches "dispatch" records the
\* dispatches and their attempts, a run that watches "observe" records the
\* observations.
GhostInit(watch) ==
    [watch |-> watch,
     dispatched |-> 0,        \* actions dispatched since the last accepted StartTask
     replies |-> 0,           \* answers of the oracle since then
     kind |-> "none",         \* the type of the action dispatched last
     attemptsFailed |-> 0,    \* executor attempts of it that failed
     consecFail |-> 0,        \* dispatches that failed in a row
     seen |-> 0,              \* observations that arrived, counted up to 2
     firstObs |-> Null,       \* the first observation that arrived
     anyDelivered |-> FALSE,  \* an observation has reached the Decision Loop
     sends |-> 0,             \* sends of the executor command dispatched last
     reinjects |-> 0,         \* re-injections since that dispatch
     performed |-> 0,         \* times the executor has carried that command out
     result |-> "none"]       \* how the dispatch completed last since the last
                              \* accepted StartTask ended: "success" or "failure"

LastOp(s) == IF s.ev = << >> THEN "init" ELSE s.ev[1]

\* The element that follows the first e in seq.
After(seq, e) ==
    LET i == CHOOSE j \in DOMAIN seq : seq[j] = e /\ \A k \in 1 .. j - 1 : seq[k] # e
    IN  seq[i + 1]

Min(a, b) == IF a < b THEN a ELSE b

GhostNext(g, ev) ==
    [g EXCEPT !.dispatched =
                  IF Has(ev, "accept") THEN Count(ev, "dispatch")
                  ELSE @ + Count(ev, "dispatch"),
              !.replies =
                  IF Has(ev, "accept") THEN Count(ev, "oracleReply")
                  ELSE @ + Count(ev, "oracleReply"),
              !.kind =
                  IF g.watch = "dispatch" /\ Has(ev, "dispatch")
                  THEN After(ev, "dispatch") ELSE @,
              !.attemptsFailed =
                  IF g.watch # "dispatch" THEN @
                  ELSE IF Has(ev, "dispatch") THEN 0
                  ELSE @ + Count(ev, "attemptFailed"),
              !.consecFail =
                  IF g.watch # "dispatch" THEN @
                  ELSE IF Has(ev, "accept") \/ Has(ev, "success") THEN 0
                  ELSE @ + Count(ev, "failure"),
              !.seen =
                  IF g.watch = "observe" /\ LastOp([ev |-> ev]) = "PAGE_STATE_UPDATE"
                  THEN Min(@ + 1, 2) ELSE @,
              !.firstObs =
                  IF g.watch = "observe" /\ LastOp([ev |-> ev]) = "PAGE_STATE_UPDATE"
                     /\ g.seen = 0
                  THEN ev[2] ELSE @,
              !.anyDelivered = @ \/ (g.watch = "observe" /\ Has(ev, "deliver")),
              !.sends =
                  IF g.watch # "send" THEN @
                  ELSE IF Has(ev, "dispatch") THEN Count(ev, "send")
                  ELSE Min(@ + Count(ev, "send"), MaxSends),
              !.reinjects =
                  IF g.watch # "send" THEN @
                  ELSE IF Has(ev, "dispatch") THEN Count(ev, "reinject")
                  ELSE Min(@ + Count(ev, "reinject"), MaxSends),
              !.performed =
                  IF g.watch # "perform" THEN @
                  ELSE IF Has(ev, "dispatch") THEN Count(ev, "perform")
                  ELSE Min(@ + Count(ev, "perform"), MaxSends),
              !.result =
                  IF g.watch # "result" THEN @
                  ELSE IF Has(ev, "accept") THEN "none"
                  ELSE IF Has(ev, "success") THEN "success"
                  ELSE IF Has(ev, "failure") THEN "failure"
                  ELSE @]

(***************************************************************************)
(* The steps of the service: one per handler or continuation of an await.  *)
(* A step takes the environment env of its scenario: the inputs the        *)
(* scenario draws (env.actions, env.outcomes) and its bounds (env.chains,  *)
(* env.steps).                                                             *)
(***************************************************************************)
Begin(name) == [bg EXCEPT !.ev = << name >>]

HasFreeChain(env) == \E c \in 1 .. env.chains : chains[c].pc = "idle"

FreeChain == CHOOSE c \in ChainIds :
                 /\ chains[c].pc = "idle"
                 /\ \A d \in ChainIds : chains[d].pc = "idle" => c <= d

\* The end of a chain in service A: the timer callback's finally block.
finish(s, origin) ==
    IF origin = "timer" THEN [s EXCEPT !.pageStateUpdateTimeout = 0] ELSE s

\* Park chain c where the result r left it, or end it.
Resume(c, origin, r) ==
    LET ended == r.k.pc = "done"
        s1 == IF ended THEN finish(r.s, origin) ELSE r.s
    IN  /\ bg' = s1
        /\ chains' = [chains EXCEPT ![c] =
                         IF ended THEN IdleChain
                         ELSE [r.k EXCEPT !.origin = origin]]
        /\ gh' = GhostNext(gh, s1.ev)

\* A handler that suspends nowhere.
Handle(s) ==
    /\ bg' = s
    /\ gh' = GhostNext(gh, s.ev)
    /\ UNCHANGED chains

ActClick == [type |-> "CLICK"]

ActNavigate == [type |-> "NAVIGATE", url |-> "u"]

ActStore == [type |-> "STORE", text |-> Str("x"), append |-> FALSE]

ActPrint == [type |-> "PRINT", text |-> Str("x")]

ActComplete == [type |-> "COMPLETE"]

ActFailed == [type |-> "FAILED", reason |-> "reason"]

\* chrome.action.onClicked: pick the target tab, then openAssistantWindow,
\* which closes a window that is still open; closing it runs the onRemoved
\* listener when that still sees the old windowId.
onClicked ==
    /\ svc = "B" => Len(bg.executionState.logs) < MaxLogs
    /\ \E seen \in BOOLEAN :
          LET s1 == [Begin("onClicked") EXCEPT !.targetTabId = Tab]
              s2 == IF s1.windowId # Null /\ seen
                    THEN stopExec([s1 EXCEPT !.targetTabId = Null])
                    ELSE s1
          IN  Handle([s2 EXCEPT !.windowId = Win])
    /\ UNCHANGED << svc, ai, timers, cs, trace >>

\* chrome.windows.onRemoved for the assistant window.
onRemoved ==
    /\ svc = "B" => Len(bg.executionState.logs) < MaxLogs
    /\ bg.windowId # Null
    /\ Handle(stopExec([Begin("onRemoved") EXCEPT
                                !.windowId = Null, !.targetTabId = Null]))
    /\ UNCHANGED << svc, ai, timers, cs, trace >>

\* The CONTENT_SCRIPT_READY message.
contentScriptReady ==
    /\ svc = "A"
    /\ Handle([Begin("CONTENT_SCRIPT_READY") EXCEPT
                  !.contentScriptReadyTabs = @ \cup {Tab}])
    /\ UNCHANGED << svc, ai, timers, cs, trace >>

\* The START_TASK message.
startTask(env) ==
    /\ svc = "A"
    /\ HasFreeChain(env)
    /\ \E prompt \in Prompts :
          Resume(FreeChain, "start", handleNewTask(Begin("START_TASK"), prompt))
    /\ UNCHANGED << svc, ai, timers, cs, trace >>

\* The EXECUTION_STOP message.
executionStop ==
    /\ svc = "A"
    /\ Handle(stopExecution(Begin("EXECUTION_STOP")))
    /\ UNCHANGED << svc, ai, timers, cs, trace >>

NoTimers == [id \in TimerIds |-> Null]

FreshTimer(tms) == CHOOSE id \in TimerIds :
                       /\ tms[id] = Null
                       /\ \A j \in TimerIds : tms[j] = Null => id <= j

\* A mutant of clearPending: the pending timer is never cleared.
clearPendingNever(tms, handle) == tms

\* handlePageStateUpdate's clearTimeout of the handle it holds: clearing the
\* handle of a timer that has fired does nothing.
clearPending(tms, handle) ==
    IF handle # 0 THEN [tms EXCEPT ![handle] = Null] ELSE tms

\* The PAGE_STATE_UPDATE message: handlePageStateUpdate up to setTimeout.
pageStateUpdate ==
    /\ svc = "A"
    /\ \E state \in Observations :
          LET cleared == clearPending(timers, bg.pageStateUpdateTimeout)
          IN  /\ \E id \in TimerIds : cleared[id] = Null
              /\ timers' = [cleared EXCEPT ![FreshTimer(cleared)] = state]
              /\ Handle([emit(Begin("PAGE_STATE_UPDATE"), state) EXCEPT
                            !.pageStateUpdateTimeout = FreshTimer(cleared)])
    /\ UNCHANGED << svc, ai, cs, trace >>

\* The callback of a debounce timer, 500 ms after it was set.
timerCallback(s, state) ==
    LET s1 == emit([s EXCEPT !.lastPageState = state], "deliver")
    IN  IF s1.currentTask # Null /\ s1.executionState.status = "running"
        THEN [s |-> emit(s1, "oracle"),
              k |-> Suspend("oracle", NoAction, 0,
                            [prompt |-> s1.currentTask,
                             pageState |-> s1.lastPageState,
                             lastResult |-> s1.lastActionResult])]
        ELSE [s |-> s1, k |-> Done]

timerFire(env) ==
    /\ svc = "A"
    /\ HasFreeChain(env)
    /\ \E id \in TimerIds :
          /\ timers[id] # Null
          /\ timers' = [timers EXCEPT ![id] = Null]
          /\ Resume(FreeChain, "timer",
                    timerCallback(emit(Begin("timer"), timers[id]), timers[id]))
    /\ UNCHANGED << svc, ai, cs, trace >>

\* The oracle answers the call of chain c with an action.
oracleReply(env) ==
    /\ svc = "A"
    /\ gh.replies < env.steps
    /\ \E c \in ChainIds, a \in env.actions :
          /\ chains[c].pc = "oracle"
          /\ LET parsed == handleParsed(ai, a)
             IN  /\ ai' = parsed.client
                 /\ Resume(c, chains[c].origin,
                           onResponse(Begin("oracleReply"), parsed.action))
    /\ UNCHANGED << svc, timers, cs, trace >>

\* getNextAction throws (no API key, provider error, unparsable answer):
\* requestNextAction and the timer callback catch it and only log to the console.
oracleThrow ==
    /\ svc = "A"
    /\ \E c \in ChainIds :
          /\ chains[c].pc = "oracle"
          /\ Resume(c, chains[c].origin, [s |-> Begin("oracleThrow"), k |-> Done])
    /\ UNCHANGED << svc, ai, timers, cs, trace >>

\* executeInTab's readiness wait: the 100 ms poll sees the tab ready, or the
\* 5 s timeout rejects.
readyWait ==
    /\ svc = "A"
    /\ \E c \in ChainIds :
          /\ chains[c].pc = "ready"
          /\ \/ /\ Tab \in bg.contentScriptReadyTabs
                /\ Resume(c, chains[c].origin,
                          [s |-> emit(Begin("ready"), "send"),
                           k |-> Suspend("send", chains[c].action, 0, NoArgs)])
             \/ Resume(c, chains[c].origin,
                       afterPerform(emit(Begin("readyTimeout"), "attemptFailed"), FALSE,
                                    "Content script did not become ready in time"))
    /\ UNCHANGED << svc, ai, timers, cs, trace >>

\* reinjectContentScript up to its await.
reinjectContentScript(s, action) ==
    IF s.targetTabId = Null
    THEN afterPerform(emit(s, "attemptFailed"), FALSE, "No target tab found")
    ELSE [s |-> emit(s, "reinject"), k |-> Suspend("reinject", action, 0, NoArgs)]

\* The outcome of chrome.tabs.sendMessage in executeInTab.
sendOutcome(s, action, outcome) ==
    IF outcome = "ok" THEN afterPerform(s, TRUE, None)
    ELSE IF outcome = "missing" THEN reinjectContentScript(s, action)
    ELSE IF outcome = "failed"
    THEN afterPerform(emit(s, "attemptFailed"), FALSE, "Action failed")
    ELSE IF outcome = "timeout"
    THEN afterPerform(emit(s, "attemptFailed"), FALSE, "Action timeout")
    ELSE afterPerform(emit(s, "attemptFailed"), FALSE, "lastError")

sendReply(env) ==
    /\ svc = "A"
    /\ \E c \in ChainIds, outcome \in env.outcomes :
          /\ chains[c].pc = "send"
          /\ Resume(c, chains[c].origin,
                    sendOutcome(emit(Begin("sendReply"), outcome),
                                chains[c].action, outcome))
    /\ UNCHANGED << svc, ai, timers, cs, trace >>

\* chrome.scripting.executeScript of the re-injection settles: the send is
\* tried again, or the rejection fails the action.
reinjectDone ==
    /\ svc = "A"
    /\ \E c \in ChainIds, ok \in BOOLEAN :
          /\ chains[c].pc = "reinject"
          /\ Resume(c, chains[c].origin,
                    IF ok
                    THEN [s |-> emit(Begin("reinjected"), "send"),
                          k |-> Suspend("send", chains[c].action, 0, NoArgs)]
                    ELSE afterPerform(emit(Begin("reinjectFailed"), "attemptFailed"), FALSE,
                                      "Failed to reinject content script"))
    /\ UNCHANGED << svc, ai, timers, cs, trace >>

\* navigate: the tab reports status complete; the listener clears the
\* timeout and waits 2 s before re-injecting.
navLoaded ==
    /\ svc = "A"
    /\ bg.targetTabId = Tab
    /\ \E c \in ChainIds :
          /\ chains[c].pc = "nav"
          /\ Resume(c, chains[c].origin,
                    [s |-> Begin("loadComplete"),
                     k |-> Suspend("settle", chains[c].action, 0, NoArgs)])
    /\ UNCHANGED << svc, ai, timers, cs, trace >>

\* navigate rejects and leaves its onUpdated listener registered.  The
\* listeners that timed-out navigations left behind are kept in the scenario
\* that lets them fire (a rejection by chrome.tabs.update leaves one too,
\* which no scenario follows).
leaveListener(s, error) ==
    IF gh.watch = "listen" /\ error = "Navigation timeout"
    THEN [s EXCEPT !.late.listeners = @ + 1]
    ELSE s

\* A mutant of navFail: the navigation command is issued again.
navFailRetries ==
    /\ svc = "A"
    /\ \E c \in ChainIds :
          /\ chains[c].pc = "nav"
          /\ Resume(c, chains[c].origin,
                    [s |-> emit(Begin("navFail"), "navigate"),
                     k |-> Suspend("nav", chains[c].action, 0, NoArgs)])
    /\ UNCHANGED << svc, ai, timers, cs, trace >>

\* navigate: the 15 s timeout rejects, or chrome.tabs.update reports an error.
navFail ==
    /\ svc = "A"
    /\ bg.late.listeners + bg.late.settling < MaxListeners
    /\ \E c \in ChainIds, error \in {"Navigation timeout", "lastError"} :
          /\ chains[c].pc = "nav"
          /\ Resume(c, chains[c].origin,
                    afterPerform(emit(leaveListener(Begin("navFail"), error),
                                      error),
                                 FALSE, error))
    /\ UNCHANGED << svc, ai, timers, cs, trace >>

\* The tab reports status complete after its navigation was rejected: a
\* listener left behind removes itself and starts its 2 s wait.
lateLoadComplete ==
    /\ svc = "A"
    /\ bg.late.listeners > 0
    /\ bg.targetTabId = Tab
    /\ Handle([Begin("lateLoad") EXCEPT
                  !.late = [listeners |-> @.listeners - 1,
                            settling |-> @.settling + 1]])
    /\ UNCHANGED << svc, ai, timers, cs, trace >>

\* Such a listener after its wait: reinjectContentScript, then a resolve or
\* reject of the promise that is settled already.
lateSettled ==
    /\ svc = "A"
    /\ bg.late.settling > 0
    /\ LET s == [Begin("lateSettled") EXCEPT !.late.settling = @ - 1]
       IN  Handle(IF s.targetTabId = Null THEN s ELSE emit(s, "reinject"))
    /\ UNCHANGED << svc, ai, timers, cs, trace >>

\* navigate after the settle delay: reinjectContentScript and its outcome.
navSettled ==
    /\ svc = "A"
    /\ \E c \in ChainIds, ok \in BOOLEAN :
          /\ chains[c].pc = "settle"
          /\ Resume(c, chains[c].origin,
                    IF bg.targetTabId = Null
                    THEN afterPerform(Begin("settle"), FALSE, "No target tab found")
                    ELSE IF ok
                    THEN afterPerform(emit(Begin("settle"), "reinject"), TRUE, None)
                    ELSE afterPerform(emit(Begin("settle"), "reinject"), FALSE,
                                      "Failed to reinject content script"))
    /\ UNCHANGED << svc, ai, timers, cs, trace >>

(***************************************************************************)
(* The steps of service B                                                  *)
(***************************************************************************)
\* The end of a chain in service B: an exception reaches the catch block of
\* the handler that started the chain.
finishB(s, origin, err) ==
    IF err = None THEN s
    ELSE IF origin = "start" THEN messageCatch(s, err)
    ELSE pageCatch(s, err)

ResumeB(c, origin, r) ==
    LET ended == r.k.pc = "done"
        s1 == IF ended THEN finishB(r.s, origin, r.k.err) ELSE r.s
    IN  /\ bg' = s1
        /\ chains' = [chains EXCEPT ![c] =
                         IF ended THEN IdleChain
                         ELSE [r.k EXCEPT !.origin = origin]]
        /\ gh' = GhostNext(gh, s1.ev)

\* The content script's handler of a command: whether the action has been
\* carried out on the page when the background sees the outcome.  "ok": the
\* action, the page state send and the reply all succeeded; "failed": the
\* action threw before it took effect; "observeFailed": the action was
\* done, the page state send that follows it was rejected and the reply
\* says success: false; "late": the action was done and the reply came
\* after the 5 s timeout; "timeout": nothing was done and no reply came.
processMessage(outcome) == outcome \in {"ok", "observeFailed", "late"}

\* The START_TASK message.
startTaskB(env) ==
    /\ svc = "B"
    /\ HasFreeChain(env)
    /\ Len(bg.executionState.logs) < MaxLogs
    /\ \E prompt \in Prompts :
          ResumeB(FreeChain, "start", handleNewTaskB(Begin("START_TASK"), prompt))
    /\ UNCHANGED << svc, ai, timers, cs, trace >>

\* The EXECUTION_STOP message.
executionStopB ==
    /\ svc = "B"
    /\ Len(bg.executionState.logs) < MaxLogs
    /\ Handle(stopExecutionB(Begin("EXECUTION_STOP")))
    /\ UNCHANGED << svc, ai, timers, cs, trace >>

\* The PAGE_STATE_UPDATE message.
pageStateUpdateB(env) ==
    /\ svc = "B"
    /\ HasFreeChain(env)
    /\ \E state \in Observations :
          ResumeB(FreeChain, "page",
                  handlePageStateUpdateB(emit(Begin("PAGE_STATE_UPDATE"), state),
                                         state))
    /\ UNCHANGED << svc, ai, timers, cs, trace >>

\* The oracle answers the call of chain c with an action.
oracleReplyB(env) ==
    /\ svc = "B"
    /\ gh.replies < env.steps
    /\ \E c \in ChainIds, a \in env.actions :
          /\ chains[c].pc = "oracle"
          /\ LET parsed == handleParsed(ai, a)
             IN  /\ ai' = parsed.client
                 /\ ResumeB(c, chains[c].origin,
                            IF chains[c].origin = "start"
                            THEN onFirstResponseB(Begin("oracleReply"),
                                                  chains[c].args.prompt,
                                                  parsed.action)
                            ELSE onResponseB(Begin("oracleReply"), parsed.action))
    /\ UNCHANGED << svc, timers, cs, trace >>

\* getNextAction throws.
oracleThrowB ==
    /\ svc = "B"
    /\ Len(bg.executionState.logs) < MaxLogs
    /\ \E c \in ChainIds :
          /\ chains[c].pc = "oracle"
          /\ ResumeB(c, chains[c].origin,
                     [s |-> Begin("oracleThrow"),
                      k |-> Thrown("Invalid AI response format")])
    /\ UNCHANGED << svc, ai, timers, cs, trace >>

\* The outcome of chrome.tabs.sendMessage in executeInTab.
sendReplyB(env) ==
    /\ svc = "B"
    /\ \E c \in ChainIds, outcome \in env.outcomes :
          /\ chains[c].pc = "send"
          /\ LET s1 == IF processMessage(outcome)
                       THEN emit(emit(Begin("sendReply"), outcome), "perform")
                       ELSE emit(Begin("sendReply"), outcome)
             IN  ResumeB(c, chains[c].origin,
                         IF outcome = "ok"
                         THEN returned(s1)
                         ELSE attemptFailedB(s1,
                                  chains[c].action, chains[c].attempts,
                                  IF outcome \in {"failed", "observeFailed"}
                                  THEN "Action failed"
                                  ELSE IF outcome \in {"timeout", "late"}
                                  THEN "Action timeout"
                                  ELSE "lastError"))
    /\ UNCHANGED << svc, ai, timers, cs, trace >>

\* The retry loop after its 1 s wait: reinjectContentScript up to its await.
backoffDoneB ==
    /\ svc = "B"
    /\ \E c \in ChainIds :
          /\ chains[c].pc = "backoff"
          /\ ResumeB(c, chains[c].origin,
                     IF bg.targetTabId = Null
                     THEN attemptB(Begin("backoff"), chains[c].action,
                                   chains[c].attempts)
                     ELSE [s |-> emit(Begin("backoff"), "reinject"),
                           k |-> Suspend("reinject", chains[c].action,
                                         chains[c].attempts, NoArgs)])
    /\ UNCHANGED << svc, ai, timers, cs, trace >>

\* reinjectContentScript settles (its failure is caught and only warned
\* about) and the loop makes its next attempt.
reinjectDoneB ==
    /\ svc = "B"
    /\ \E c \in ChainIds :
          /\ chains[c].pc = "reinject"
          /\ ResumeB(c, chains[c].origin,
                     attemptB(Begin("reinjected"), chains[c].action,
                              chains[c].attempts))
    /\ UNCHANGED << svc, ai, timers, cs, trace >>

\* navigate: the tab reports status complete and the listener injects the
\* content script.
navLoadedB ==
    /\ svc = "B"
    /\ bg.targetTabId = Tab
    /\ \E c \in ChainIds :
          /\ chains[c].pc = "nav"
          /\ ResumeB(c, chains[c].origin,
                     [s |-> emit(Begin("loadComplete"), "reinject"),
                      k |-> Suspend("navInject", chains[c].action, 0, NoArgs)])
    /\ UNCHANGED << svc, ai, timers, cs, trace >>

\* navigate: the 10 s timeout rejects (it stays armed during the
\* injection), or chrome.tabs.update reports an error.
navFailB ==
    /\ svc = "B"
    /\ Len(bg.executionState.logs) < MaxLogs
    /\ \E c \in ChainIds, error \in {"Navigation timeout", "lastError"} :
          /\ chains[c].pc \in {"nav", "navInject"}
          /\ error = "lastError" => chains[c].pc = "nav"
          /\ ResumeB(c, chains[c].origin,
                     threw(emit(Begin("navFail"), error), error))
    /\ UNCHANGED << svc, ai, timers, cs, trace >>

\* navigate: the injection and the get_page_state request ("fetch") settle.
navInjectedB ==
    /\ svc = "B"
    /\ Len(bg.executionState.logs) < MaxLogs
    /\ \E c \in ChainIds, ok \in BOOLEAN :
          /\ chains[c].pc = "navInject"
          /\ ResumeB(c, chains[c].origin,
                     IF ok THEN returned(emit(Begin("navInjected"), "fetch"))
                     ELSE threw(Begin("navInjected"), "Action failed"))
    /\ UNCHANGED << svc, ai, timers, cs, trace >>

(***************************************************************************)
(* ContentScript (src/src/content/index.ts)                                *)
(* The document is one of a few pages; the extractor turns it into a       *)
(* PageState, of which the timestamp is left out: no code reads it.        *)
(***************************************************************************)
Element(text, isVisible) ==
    [type |-> "button", path |-> "#b", text |-> text, isVisible |-> isVisible]

PageOf(visible, hidden) ==
    [url |-> "u", title |-> "t",
     elements |-> << Element(visible, TRUE), Element(hidden, FALSE) >>]

\* Two pages that differ in a visible element, and one that differs from
\* the first in a hidden element only.
Documents == {PageOf("a", "x"), PageOf("b", "x"), PageOf("a", "y")}

RECURSIVE visibleElements(_)
visibleElements(elements) ==
    IF elements = << >> THEN << >>
    ELSE IF Head(elements).isVisible
         THEN << << Head(elements).type, Head(elements).path,
                    Head(elements).text >> >>
              \o visibleElements(Tail(elements))
         ELSE visibleElements(Tail(elements))

hashState(state) ==
    [url |-> state.url,
     title |-> state.title,
     elementCount |-> Len(state.elements),
     visibleElements |-> visibleElements(state.elements)]

\* initial: where sendInitialState stands (pc "wait": before its first
\* attempt, "retry": in the 500 ms pause after a failed attempt) and its
\* loop counter; worked: the transport was up at one of its attempts.
\* message: where the message listener stands ("settle": in its 100 ms
\* pause).  debounceTimeout: the 500 ms timer of handleDOMChanges is live.
ContentScriptInit ==
    [lastStateHash |-> Null,
     isInitialStateSet |-> FALSE,
     debounceTimeout |-> FALSE,
     document |-> PageOf("a", "x"),
     initial |-> [pc |-> "wait", i |-> 0, worked |-> FALSE],
     message |-> "idle",
     ev |-> << >>]

\* sendPageState with the transport up or down: the content script after
\* the call, the page states the background received, and whether the call
\* threw.  The two fields are written before the send is awaited.
sendPageState(c, up) ==
    LET state == c.document
        stateHash == hashState(state)
    IN  IF ~c.isInitialStateSet \/ stateHash # c.lastStateHash
        THEN [c |-> [c EXCEPT !.lastStateHash = stateHash,
                              !.isInitialStateSet = TRUE,
                              !.ev = Append(@, IF up THEN "deliver"
                                                     ELSE "lastError")],
              sent |-> IF up THEN << state >> ELSE << >>,
              threw |-> ~up]
        ELSE [c |-> [c EXCEPT !.ev = Append(@, "skip")],
              sent |-> << >>,
              threw |-> FALSE]

\* The filter of handleDOMChanges on one mutation record.
significantChange(c, mutation) ==
    IF ~c.isInitialStateSet THEN TRUE
    ELSE IF mutation.type = "attributes" /\ mutation.attributeName = "style"
    THEN FALSE
    ELSE IF mutation.hidden THEN FALSE
    ELSE \/ mutation.type \in {"childList", "characterData"}
         \/ /\ mutation.type = "attributes"
            /\ mutation.attributeName \in {"checked", "selected", "disabled", "href"}

handleDOMChanges(c, mutation) ==
    IF significantChange(c, mutation)
    THEN [c EXCEPT !.debounceTimeout = TRUE]
    ELSE c

\* The mutation record the observer reports when the document changes from
\* one page to another, or is restyled (to = from).
MutationOf(from, to) ==
    IF to = from
    THEN [type |-> "attributes", attributeName |-> "style", hidden |-> FALSE]
    ELSE [type |-> "characterData", attributeName |-> None,
          hidden |-> visibleElements(to.elements) = visibleElements(from.elements)]

BeginCs(name) == [cs EXCEPT !.ev = << name >>]

\* A step of the content script; trace keeps the page states delivered.
CsStep(c, sent) ==
    /\ cs' = c
    /\ trace' = trace \o sent
    /\ UNCHANGED << svc, bg, ai, chains, timers, gh >>

\* The page changes under the MutationObserver.
domChange ==
    /\ \E to \in Documents :
          cs' = handleDOMChanges([BeginCs("mutation") EXCEPT !.document = to],
                                 MutationOf(cs.document, to))
    /\ UNCHANGED << svc, bg, ai, chains, timers, gh, trace >>

\* The debounce timer fires; a rejection of sendPageState is unhandled.
debounceFire ==
    /\ cs.debounceTimeout
    /\ Len(trace) < MaxTrace
    /\ \E up \in BOOLEAN :
          LET r == sendPageState(BeginCs("debounce"), up)
          IN  CsStep([r.c EXCEPT !.debounceTimeout = FALSE], r.sent)

\* One attempt of the loop of sendInitialState.
sendInitialState ==
    /\ cs.initial.pc \in {"wait", "retry"}
    /\ Len(trace) < MaxTrace
    /\ \E up \in BOOLEAN :
          LET r == sendPageState(BeginCs("sendInitialState"), up)
              i == cs.initial.i
              worked == cs.initial.worked \/ up
          IN  CsStep([r.c EXCEPT !.initial =
                         IF r.threw
                         THEN [pc |-> IF i + 1 < 3 THEN "retry" ELSE "done",
                               i |-> i + 1, worked |-> worked]
                         ELSE [pc |-> "done", i |-> i, worked |-> worked]],
                     r.sent)

\* The message listener up to its 100 ms pause: get_page_state sends the
\* page state, an action command is carried out or fails.
onMessage ==
    /\ cs.message = "idle"
    /\ Len(trace) < MaxTrace
    /\ \E type \in {"get_page_state", "click"}, ok \in BOOLEAN :
          LET r == IF type = "get_page_state"
                   THEN sendPageState(BeginCs(type), ok)
                   ELSE [c |-> BeginCs(type), sent |-> << >>, threw |-> ~ok]
          IN  CsStep(IF r.threw THEN emit(r.c, "failure")
                     ELSE [r.c EXCEPT !.message = "settle"],
                     r.sent)

\* The listener after the pause: the page state is sent and the reply made.
messageSettled ==
    /\ cs.message = "settle"
    /\ Len(trace) < MaxTrace
    /\ \E up \in BOOLEAN :
          LET r == sendPageState(BeginCs("settled"), up)
          IN  CsStep([emit(r.c, IF r.threw THEN "failure" ELSE "success")
                         EXCEPT !.message = "idle"],
                     r.sent)

(***************************************************************************)
(* Specifications                                                          *)
(***************************************************************************)
InitOf(service, watch) ==
    /\ svc = service
    /\ bg = [BackgroundServiceInit EXCEPT !.published.on = (watch = "publish")]
    /\ ai = AIClientInit
    /\ chains = [c \in ChainIds |-> IdleChain]
    /\ timers = NoTimers
    /\ gh = GhostInit(watch)
    /\ cs = ContentScriptInit
    /\ trace = << >>

\* Service A, the dispatch scenario: one task at a time is driven through
\* executor actions and navigations that succeed or fail.
EnvDispatch ==
    [actions |-> {ActClick, ActNavigate, ActComplete},
     outcomes |-> {"ok", "failed", "timeout", "missing"},
     chains |-> 1,
     steps |-> MaxSteps]

Init == InitOf("A", "dispatch")

Next ==
    \/ onClicked
    \/ contentScriptReady
    \/ startTask(EnvDispatch)
    \/ executionStop
    \/ oracleReply(EnvDispatch)
    \/ oracleThrow
    \/ readyWait
    \/ sendReply(EnvDispatch)
    \/ reinjectDone
    \/ navLoaded
    \/ navFail
    \/ navSettled

Spec == Init /\ [][Next]_vars

\* Service A, the debounce scenario: observations arrive while tasks are
\* started, stopped and driven through in-process actions.
EnvDebounce ==
    [actions |-> {ActStore, ActComplete},
     outcomes |-> {},
     chains |-> MaxChains,
     steps |-> MaxReplies]

NextDebounce ==
    \/ onClicked
    \/ onRemoved
    \/ startTask(EnvDebounce)
    \/ executionStop
    \/ pageStateUpdate
    \/ timerFire(EnvDebounce)
    \/ oracleReply(EnvDebounce)
    \/ oracleThrow

InitDebounce == InitOf("A", "observe")

SpecDebounce == InitDebounce /\ [][NextDebounce]_vars

\* Service A, the observation scenario with one call chain at a time: the
\* observations up to and around the first delivery.
EnvObserve ==
    [actions |-> {ActStore, ActComplete},
     outcomes |-> {},
     chains |-> 1,
     steps |-> MaxReplies]

NextObserve ==
    \/ onClicked
    \/ onRemoved
    \/ startTask(EnvObserve)
    \/ executionStop
    \/ pageStateUpdate
    \/ timerFire(EnvObserve)
    \/ oracleReply(EnvObserve)
    \/ oracleThrow

SpecObserve == InitDebounce /\ [][NextObserve]_vars

\* Service B: tasks are started, stopped and driven by observations.
EnvB ==
    [actions |-> {ActClick, ActNavigate, ActComplete},
     outcomes |-> {"ok", "failed"},
     chains |-> 1,
     steps |-> MaxReplies]

InitB == InitOf("B", "dispatch")

NextB ==
    \/ onClicked
    \/ onRemoved
    \/ startTaskB(EnvB)
    \/ executionStopB
    \/ pageStateUpdateB(EnvB)
    \/ oracleReplyB(EnvB)
    \/ oracleThrowB
    \/ sendReplyB(EnvB)
    \/ backoffDoneB
    \/ reinjectDoneB
    \/ navLoadedB
    \/ navFailB
    \/ navInjectedB

SpecB == InitB /\ [][NextB]_vars

\* Either service, each in its dispatch scenario.
InitBoth == Init \/ InitB

NextBoth == Next \/ NextB

SpecBoth == InitBoth /\ [][NextBoth]_vars

\* The AIClient alone: getNextAction parses a sequence of answers, starting
\* from an empty buffer.
StoreTexts == {Str("x"), Str("y"), Str("z"), EmptyStr, Rep("a", MAX_STORED_LENGTH + 1)}

StoreOf(text, append) == [type |-> "STORE", text |-> text, append |-> append]

AIAnswers ==
    {StoreOf(text, append) : text \in StoreTexts, append \in BOOLEAN}
        \cup {ActPrint, ActComplete, ActClick}

\* getNextAction from the parsed answer on; trace records the answer and the
\* buffer it left.
aiAnswer ==
    /\ Len(trace) < MaxTrace
    /\ \E a \in AIAnswers :
          LET parsed == handleParsed(ai, a)
          IN  /\ ai' = parsed.client
              /\ trace' = Append(trace, [action |-> a,
                                         stored |-> parsed.client.currentStoredData])
    /\ UNCHANGED << svc, bg, chains, timers, gh, cs >>

NextStore == aiAnswer

SpecStore == Init /\ [][NextStore]_vars

\* Service A, the dispatch scenario with the last broadcast snapshot kept
\* and with what the event loop guarantees: a wait that a timer backs
\* (readiness 5 s, reply 5 s, load 15 s, settle 2 s) resolves or times out,
\* and a script injection settles.  Nothing makes the oracle answer.
InitFair == InitOf("A", "publish")

Fairness ==
    /\ WF_vars(readyWait)
    /\ WF_vars(sendReply(EnvDispatch))
    /\ WF_vars(reinjectDone)
    /\ WF_vars(navLoaded \/ navFail)
    /\ WF_vars(navSettled)

SpecFair == InitFair /\ [][Next]_vars /\ Fairness

\* Service A, the dispatch scenario with the sends and re-injections of
\* each dispatch counted.
InitSend == InitOf("A", "send")

SpecSend == InitSend /\ [][Next]_vars

\* Service B, the retry scenario: what the executor did is recorded with
\* each outcome of a send.
EnvRetry ==
    [actions |-> {ActClick, ActNavigate, ActComplete},
     outcomes |-> {"ok", "failed", "observeFailed", "late"},
     chains |-> 1,
     steps |-> MaxReplies]

NextRetry ==
    \/ onClicked
    \/ onRemoved
    \/ startTaskB(EnvRetry)
    \/ executionStopB
    \/ pageStateUpdateB(EnvRetry)
    \/ oracleReplyB(EnvRetry)
    \/ oracleThrowB
    \/ sendReplyB(EnvRetry)
    \/ backoffDoneB
    \/ reinjectDoneB
    \/ navLoadedB
    \/ navFailB
    \/ navInjectedB

SpecRetry == InitOf("B", "perform") /\ [][NextRetry]_vars

\* Service B with two call chains: a START_TASK can come while the answer
\* to the first oracle call of an earlier one is still awaited.
NextStale ==
    \/ onClicked
    \/ startTaskB(EnvDebounce)
    \/ executionStopB
    \/ oracleReplyB(EnvDebounce)
    \/ oracleThrowB

SpecStale == InitB /\ [][NextStale]_vars

\* Either service with no API key in the settings store: getProvider throws
\* in every getNextAction, so that no oracle call is ever answered.
NextUnconfigured ==
    \/ onClicked
    \/ onRemoved
    \/ startTask(EnvObserve)
    \/ executionStop
    \/ pageStateUpdate
    \/ timerFire(EnvObserve)
    \/ oracleThrow
    \/ startTaskB(EnvB)
    \/ executionStopB
    \/ pageStateUpdateB(EnvB)
    \/ oracleThrowB

SpecUnconfigured == InitBoth /\ [][NextUnconfigured]_vars

\* The publish scenario: updateExecutionState is called with the updates its
\* call sites build, and the broadcast is delivered or rejected.
PublishUpdates(s) ==
    { [currentAction |-> ActClick,
       logs |-> withLog(s, Log("info", "AI Response", "reasoning"))],
      [status |-> "idle",
       logs |-> withLog(s, Log("info", "Task completed successfully", ""))],
      [status |-> "running", currentStep |-> 1, totalSteps |-> 1,
       currentAction |-> ActNavigate,
       logs |-> << Log("info", "Starting task", "p1") >>],
      [status |-> "error", error |-> "A task is already running.",
       logs |-> withLog(s, Log("error", "A task is already running.", ""))] }

\* The promise of chrome.runtime.sendMessage settles: on a rejection the
\* catch handler warns on the console and nothing else.
broadcastSettled(s, delivered) ==
    IF delivered THEN s ELSE emit(s, "warn")

\* One call of updateExecutionState; trace keeps the state before it, the
\* update and whether the broadcast was delivered.
publish ==
    /\ Len(bg.executionState.logs) < MaxLogs
    /\ \E u \in PublishUpdates(bg), delivered \in BOOLEAN :
          /\ bg' = broadcastSettled(
                       updateExecutionState(Begin("update"), u), delivered)
          /\ trace' = << [before |-> bg.executionState, updates |-> u,
                          delivered |-> delivered] >>
    /\ UNCHANGED << svc, ai, chains, timers, gh, cs >>

NextPublish == publish

SpecPublish == InitBoth /\ [][NextPublish]_vars

\* Service A, the result scenario: navigations that fail, observations and
\* tasks that are stopped and started, with one call chain at a time.
EnvResult ==
    [actions |-> {ActNavigate, ActComplete},
     outcomes |-> {},
     chains |-> 1,
     steps |-> MaxReplies]

NextResult ==
    \/ onClicked
    \/ startTask(EnvResult)
    \/ executionStop
    \/ pageStateUpdate
    \/ timerFire(EnvResult)
    \/ oracleReply(EnvResult)
    \/ oracleThrow
    \/ navFail

SpecResult == InitOf("A", "result") /\ [][NextResult]_vars

\* Service B, the in-process scenario: the oracle answers STORE, PRINT or
\* COMPLETE, and every call of the oracle is answered or fails.  Nothing
\* makes an observation arrive: these actions leave the page as it is.
EnvInProcess ==
    [actions |-> {ActStore, ActPrint, ActComplete},
     outcomes |-> {},
     chains |-> 1,
     steps |-> MaxReplies]

NextInProcess ==
    \/ onClicked
    \/ startTaskB(EnvInProcess)
    \/ executionStopB
    \/ pageStateUpdateB(EnvInProcess)
    \/ oracleReplyB(EnvInProcess)
    \/ oracleThrowB

SpecInProcess ==
    /\ InitB
    /\ [][NextInProcess]_vars
    /\ WF_vars(oracleReplyB(EnvInProcess) \/ oracleThrowB)

\* Service A, the late-load scenario: navigations fail or succeed, and a
\* tab whose navigation was rejected reports its load afterwards.
NextLate ==
    \/ onClicked
    \/ startTask(EnvResult)
    \/ executionStop
    \/ oracleReply(EnvResult)
    \/ oracleThrow
    \/ navLoaded
    \/ navFail
    \/ navSettled
    \/ lateLoadComplete
    \/ lateSettled

SpecLate == InitOf("A", "listen") /\ [][NextLate]_vars

\* The content script alone: the page changes, the background asks for the
\* page state or sends commands, and each send finds the transport up or
\* down.
NextContent ==
    \/ domChange
    \/ debounceFire
    \/ sendInitialState
    \/ onMessage
    \/ messageSettled

SpecContent == Init /\ [][NextContent]_vars

(***************************************************************************)
(* Properties                                                              *)
(***************************************************************************)
Live(tms) == {id \in TimerIds : tms[id] # Null}

\* What the Task Controller owns: the task, the execution state and the
\* error budget.
Engine(s) ==
    [currentTask |-> s.currentTask,
     executionState |-> s.executionState,
     errorCount |-> s.errorCount,
     lastPageState |-> s.lastPageState]

\* C1: while a task runs, currentStep equals the number of actions
\* dispatched since the last accepted StartTask.
C1_StepCountsDispatches ==
    bg.executionState.status = "running"
        => bg.executionState.currentStep = gh.dispatched

\* C2: a StartTask that arrives while the status is Running leaves the task,
\* the execution state (status, currentStep, currentAction, error, logs) and
\* the error budget as they were.
C2_RejectedStartChangesNothing ==
    [][ ( /\ bg.executionState.status = "running"
          /\ LastOp(bg') = "START_TASK" )
        => Engine(bg') = Engine(bg) ]_vars

\* C3: Stop is idempotent and a no-op when idle: a Stop that follows a Stop,
\* or that arrives while the status is Idle or Stopped, leaves the engine
\* state as it was.
C3_StopIdempotent ==
    [][ ( /\ LastOp(bg') = "EXECUTION_STOP"
          /\ \/ LastOp(bg) = "EXECUTION_STOP"
             \/ bg.executionState.status \in {"idle", "stopped"} )
        => Engine(bg') = Engine(bg) ]_vars

C5_RetryThenSuccess ==
    ( /\ gh.kind \in ExecutorTypes
      /\ LastOp(bg) = "sendReply" )
        => /\ Has(bg.ev, "failure") => gh.attemptsFailed >= maxAttempts
           /\ ( /\ bg.ev[2] = "ok"
                /\ gh.attemptsFailed = maxAttempts - 1 )
              => Has(bg.ev, "success") /\ bg.errorCount = 0

\* C6: the step in which the 5th dispatch in a row fails leaves the status
\* Failed and the task cleared, and calls the oracle no more.
C6_BudgetTripFails ==
    ( /\ Has(bg.ev, "failure")
      /\ gh.consecFail >= MAX_ERRORS )
        => /\ bg.executionState.status = "failed"
           /\ bg.currentTask = Null
           /\ ~ Has(bg.ev, "oracle")
           /\ ~ Has(bg.ev, "dispatch")

\* C7: once an observation has been delivered, the observations that
\* arrive leave exactly one delivery pending, and it carries the newest of
\* them.
C7_OneDeliveryOfNewest ==
    ( /\ gh.anyDelivered
      /\ LastOp(bg) = "PAGE_STATE_UPDATE" )
        => \E id \in TimerIds :
              /\ Live(timers) = {id}
              /\ timers[id] = bg.ev[2]

C9_NavigationTimeoutCounted ==
    [][ ( /\ LastOp(bg') = "navFail"
          /\ bg'.ev[2] = "Navigation timeout" )
        => /\ Has(bg'.ev, "failure")
           /\ IF bg.errorCount + 1 >= MAX_ERRORS
              THEN bg'.errorCount = 0 /\ Has(bg'.ev, "trip")
              ELSE /\ bg'.errorCount = bg.errorCount + 1
                   /\ bg'.lastActionResult =
                          [success |-> FALSE, error |-> "Navigation timeout"] ]_vars

\* A navigation has timed out as the 5th failure in a row.
C9_Witness ==
    /\ LastOp(bg) = "navFail"
    /\ bg.ev[2] = "Navigation timeout"
    /\ Has(bg.ev, "trip")
    /\ bg.errorCount = 0

\* C9 as stated: a navigation timeout adds exactly 1 to the error budget.
C9_NavigationTimeoutAddsOne ==
    [][ ( /\ LastOp(bg') = "navFail"
          /\ bg'.ev[2] = "Navigation timeout" )
        => bg'.errorCount = bg.errorCount + 1 ]_vars

\* The chains parked at one of the awaits pcs.
InFlight(pcs) == {c \in ChainIds : chains[c].pc \in pcs}

\* The awaits of a dispatch: readiness, the executor's reply, re-injection,
\* the retry backoff and the navigation.
DispatchPcs == {"ready", "send", "reinject", "backoff", "nav", "settle", "navInject"}

\* The steps in which an await of a chain resolves.
ResolveOps ==
    {"oracleReply", "oracleThrow", "ready", "readyTimeout", "sendReply",
     "reinjected", "reinjectFailed", "loadComplete", "navFail", "settle",
     "backoff", "navInjected"}

\* C11: at no time are two oracle calls, or two dispatches, of the engine in
\* flight at once.
C11_OneInFlight ==
    /\ Cardinality(InFlight({"oracle"})) <= 1
    /\ Cardinality(InFlight(DispatchPcs)) <= 1

\* C12: a wait that resolves right after a Stop (so it was in flight when
\* the Stop came) is discarded: it calls the oracle no more, dispatches
\* nothing and leaves the engine state as it was.
C12_StaleReplyDiscarded ==
    [][ ( /\ LastOp(bg) = "EXECUTION_STOP"
          /\ LastOp(bg') \in ResolveOps )
        => /\ ~ Has(bg'.ev, "oracle")
           /\ ~ Has(bg'.ev, "dispatch")
           /\ Engine(bg') = Engine(bg) ]_vars

\* C13: when an accepted StartTask makes its first oracle call, the step
\* counter and the error budget are 0, the task is set, the status is
\* Running and the log ends with a "starting" entry.
C13_StartResetsBeforeOracle ==
    ( /\ LastOp(bg) = "START_TASK"
      /\ Has(bg.ev, "accept") )
        => /\ Has(bg.ev, "oracle")
           /\ bg.executionState.currentStep = 0
           /\ bg.errorCount = 0
           /\ bg.currentTask # Null
           /\ bg.executionState.status = "running"
           /\ bg.executionState.logs # << >>
           /\ bg.executionState.logs[Len(bg.executionState.logs)].message
                  = "Starting task"

\* C14: an accepted StartTask calls the oracle exactly once, with a null
\* observation and a default-success last result.
C14_FirstCallFresh ==
    ( /\ LastOp(bg) = "START_TASK"
      /\ Has(bg.ev, "accept") )
        => /\ Count(bg.ev, "oracle") = 1
           /\ \A c \in InFlight({"oracle"}) :
                 /\ chains[c].args.pageState = Null
                 /\ chains[c].args.lastResult = [success |-> TRUE, error |-> None]

\* C15: a Stop leaves no active task and no pending observation, and the
\* log ends with the "stopped by user" entry.
C15_StopClearsPending ==
    LastOp(bg) = "EXECUTION_STOP"
        => /\ bg.currentTask = Null
           /\ Live(timers) = {}
           /\ bg.executionState.logs # << >>
           /\ bg.executionState.logs[Len(bg.executionState.logs)].message
                  = "Task execution stopped by user"

\* C16 as claimed: after a publish every field named in the update has the
\* update's value and every other field the value it had, whether or not the
\* broadcast was delivered, and nothing is thrown.
C16_PublishMerges ==
    trace # << >>
        => /\ ~ Has(bg.ev, "throw")
           /\ \A f \in DOMAIN bg.executionState :
                 bg.executionState[f] =
                     IF f \in DOMAIN trace[1].updates
                     THEN trace[1].updates[f] ELSE trace[1].before[f]

\* C16, amended: as above for every field but totalSteps, which is 0 after
\* every publish whatever the update names.
C16_PublishMergesAllButTotalSteps ==
    trace # << >>
        => /\ ~ Has(bg.ev, "throw")
           /\ bg.executionState.totalSteps = 0
           /\ \A f \in DOMAIN bg.executionState \ {"totalSteps"} :
                 bg.executionState[f] =
                     IF f \in DOMAIN trace[1].updates
                     THEN trace[1].updates[f] ELSE trace[1].before[f]

\* A publish whose broadcast failed and whose update names neither the status
\* nor the step, both of which had left their initial values.
C16_Witness ==
    /\ trace # << >>
    /\ ~ trace[1].delivered
    /\ Has(bg.ev, "warn")
    /\ DOMAIN trace[1].updates = {"currentAction", "logs"}
    /\ trace[1].before.status = "error"
    /\ trace[1].before.currentStep = 1
    /\ bg.executionState.status = "error"

\* C17: every change of the execution state is followed by a broadcast of
\* the changed state: whenever the state differs from the snapshot broadcast
\* last, a broadcast that makes them equal follows.
C17_ChangeIsPublished ==
    (bg.executionState # bg.published.state)
        ~> (bg.executionState = bg.published.state)

\* The awaits of a call chain.
WaitPcs == DispatchPcs \cup {"oracle"}

\* C20: every wait of a call chain ends, also when the awaited party never
\* answers.
C20_EveryWaitEnds ==
    \A c \in ChainIds : \A w \in WaitPcs :
        (chains[c].pc = w) ~> (chains[c].pc # w)

\* The steps that call stopExecution without starting a task.
StopOps == {"EXECUTION_STOP", "onClicked", "onRemoved"}

\* C18: the error count is 0 after a successful dispatch and after an
\* accepted StartTask, and a step changes it only as a failed dispatch
\* (+1, or to 0 when the 5th failure trips the budget and stops), a
\* successful dispatch (to 0), a task start (to 0) or a stop (to 0).
C18_BudgetChanges ==
    [][ /\ Has(bg'.ev, "success") => bg'.errorCount = 0
        /\ Has(bg'.ev, "accept") => bg'.errorCount = 0
        /\ bg'.errorCount # bg.errorCount
             => \/ /\ Has(bg'.ev, "failure")
                   /\ ~ Has(bg'.ev, "trip")
                   /\ bg'.errorCount = bg.errorCount + 1
                \/ /\ Has(bg'.ev, "failure")
                   /\ Has(bg'.ev, "trip")
                   /\ bg.errorCount + 1 = MAX_ERRORS
                   /\ bg'.errorCount = 0
                \/ /\ Has(bg'.ev, "success")
                   /\ bg'.errorCount = 0
                \/ /\ Has(bg'.ev, "accept")
                   /\ bg'.errorCount = 0
                \/ /\ LastOp(bg') \in StopOps
                   /\ bg'.errorCount = 0 ]_vars

\* The third (or a later) dispatch of a running task has succeeded and the
\* error count is 0.
C18_Witness ==
    /\ Has(bg.ev, "success")
    /\ bg.errorCount = 0
    /\ gh.dispatched >= 3
    /\ bg.executionState.status = "running"

\* C19: one dispatch sends its command at most twice and re-injects the
\* executor at most once, however often the endpoint is reported missing.
C19_OneReinjection ==
    gh.sends > 0 => (gh.sends <= 2 /\ gh.reinjects <= 1)

\* C21: after the step that carries out a terminal decision the task is
\* cleared, the log ends with the completion or failure entry, the status
\* is Idle (completed) or Error with the reason (failed), and the step calls
\* the oracle no more.
C21_TerminalDecisionEndsTask ==
    ( /\ Has(bg.ev, "dispatch")
      /\ After(bg.ev, "dispatch") \in {"COMPLETE", "FAILED"} )
        => /\ bg.currentTask = Null
           /\ ~ Has(bg.ev, "oracle")
           /\ bg.executionState.logs # << >>
           /\ IF After(bg.ev, "dispatch") = "COMPLETE"
              THEN /\ bg.executionState.status = "idle"
                   /\ bg.executionState.logs[Len(bg.executionState.logs)].message
                          = "Task completed successfully"
              ELSE /\ bg.executionState.status = "error"
                   /\ bg.executionState.error = ActFailed.reason
                   /\ bg.executionState.logs[Len(bg.executionState.logs)].message
                          = ActFailed.reason

\* C22: after the step in which an oracle call has thrown, the status is
\* Error and the step has not called the oracle again.
C22_OracleErrorSurfaces ==
    LastOp(bg) = "oracleThrow"
        => /\ bg.executionState.status = "error"
           /\ ~ Has(bg.ev, "oracle")

\* C23: a step in which a dispatch fails, a navigation times out, an oracle
\* call throws or the error budget trips appends an entry to the log.
C23_FailureIsLogged ==
    [][ ( \/ Has(bg'.ev, "failure")
          \/ Has(bg'.ev, "trip")
          \/ LastOp(bg') = "oracleThrow" )
        => /\ Len(bg'.executionState.logs) > Len(bg.executionState.logs)
           /\ \A i \in DOMAIN bg.executionState.logs :
                 bg'.executionState.logs[i] = bg.executionState.logs[i] ]_vars

\* C24: with no oracle credentials no Task is ever created and the status
\* never becomes Running.
C24_NotConfiguredFailsFast ==
    /\ bg.currentTask = Null
    /\ bg.executionState.status # "running"

\* C25: the executor carries out the command of one dispatch at most once,
\* however often the dispatcher retries it.
C25_NoDuplicateSideEffect ==
    gh.performed <= 1

IsPrefix(s, t) ==
    /\ Len(s) <= Len(t)
    /\ \A i \in DOMAIN s : t[i] = s[i]

\* C26: within a task the log only grows at its end.  A step either starts
\* the log of a task (the accepted StartTask, or in service B the first
\* oracle answer after it) or leaves the old log as a prefix of the new one.
C26_LogsAppendOnly ==
    [][ \/ Has(bg'.ev, "accept")
        \/ /\ svc = "B"
           /\ LastOp(bg') = "oracleReply"
           /\ gh.replies = 0
        \/ IsPrefix(bg.executionState.logs, bg'.executionState.logs) ]_vars

\* C27: when the dispatch of an executor action has failed, at most 3
\* attempts were made, the failure is counted in the error budget (or has
\* tripped it) and has not been thrown on as a task error.
C27_FinalFailureIsCounted ==
    ( /\ Has(bg.ev, "failure")
      /\ gh.kind \in ExecutorTypes )
        => /\ gh.attemptsFailed <= maxAttempts
           /\ bg.errorCount > 0 \/ Has(bg.ev, "trip")
           /\ bg.executionState.status # "error"
           /\ ~ Has(bg.ev, "reject")

\* C28: the navigation command is issued only in the step that dispatches a
\* Navigate action, once, and the step in which the navigation fails reports
\* the failure of the action.
C28_NavigateNotRetried ==
    [][ /\ Has(bg'.ev, "navigate")
             => /\ Has(bg'.ev, "dispatch")
                /\ After(bg'.ev, "dispatch") = "NAVIGATE"
                /\ Count(bg'.ev, "navigate") = 1
        /\ LastOp(bg') = "navFail"
             => /\ Has(bg'.ev, "failure")
                /\ InFlight({"nav"})' = {} ]_vars

\* A navigation has failed and its failure has been reported.
C28_Witness ==
    /\ LastOp(bg) = "navFail"
    /\ Has(bg.ev, "failure")
    /\ gh.kind = "NAVIGATE"
    /\ InFlight({"nav"}) = {}

\* C29: the step in which a Navigate action reports success is the one that
\* ends the re-establishment after the load-complete signal, an observation
\* fetch has been made in it, and it does not call the oracle before that
\* observation can arrive.
C29_NavigateSuccessIsFresh ==
    ( /\ gh.kind = "NAVIGATE"
      /\ Has(bg.ev, "success") )
        => /\ LastOp(bg) \in {"settle", "navInjected"}
           /\ Has(bg.ev, "fetch")
           /\ ~ Has(bg.ev, "oracle")

\* C30: a navigation takes its target out of the readiness registry: in the
\* step that issues the navigation command the target is no longer listed
\* as ready.
C30_NavigationClearsReadiness ==
    Has(bg.ev, "navigate") => Tab \notin bg.contentScriptReadyTabs

\* C32: after any sequence of STORE answers, in append or in replace mode,
\* the accumulated text is never longer than MAX_STORED_LENGTH characters.
C32_StoreBounded == StrLen(ai.currentStoredData) <= MAX_STORED_LENGTH

\* C31: after the first delivery, every page state the content script
\* delivers has a fingerprint (hashState) different from that of the page
\* state delivered before it.
C31_DeliveredOnlyOnChange ==
    \A i \in 2 .. Len(trace) : hashState(trace[i]) # hashState(trace[i - 1])

\* C40: the content script holds a page state as delivered (initial-state
\* flag set, last fingerprint) only if its send succeeded, and
\* sendInitialState, once over, has delivered a page state if the transport
\* was up at one of its attempts.
C40_RecordedOnlyWhenSent ==
    /\ cs.isInitialStateSet
           => /\ Len(trace) > 0
              /\ cs.lastStateHash = hashState(trace[Len(trace)])
    /\ (cs.initial.pc = "done" /\ cs.initial.worked) => Len(trace) > 0

\* C34: an oracle call that is not the first of its task carries as
\* lastResult the outcome of the dispatch that completed last in that task
\* (the default success when none has completed yet).
C34_LastResultIsFedBack ==
    [][ (Has(bg'.ev, "oracle") /\ ~ Has(bg'.ev, "accept"))
            => \A c \in ChainIds :
                  (chains'[c].pc = "oracle" /\ chains'[c] # chains[c])
                      => /\ chains'[c].args.lastResult.success
                             = (gh'.result # "failure")
                         /\ chains'[c].args.lastResult.success
                             <=> chains'[c].args.lastResult.error = None ]_vars

\* C33: while a task runs, every dispatch that has returned (STORE and PRINT
\* included) is followed by the next call of the oracle, unless the task
\* stops running first.
C33_RunningTaskProgresses ==
    ( /\ bg.executionState.status = "running"
      /\ Has(bg.ev, "dispatch")
      /\ Has(bg.ev, "success") \/ Has(bg.ev, "failure") )
        ~> ( \/ Has(bg.ev, "oracle")
             \/ bg.executionState.status # "running" )

\* The log entry that executeAction writes for an action of the given type.
DescriptionOf(type) ==
    IF svc = "A"
    THEN Log("string", "Executing action", type)
    ELSE Log("info", getActionDescription([type |-> type]), type)

\* The number of such entries in a log.
Descriptions(logs) ==
    Cardinality({i \in DOMAIN logs :
                    \E a \in {ActClick, ActNavigate, ActStore, ActPrint,
                              ActComplete, ActFailed} :
                        logs[i] = DescriptionOf(a.type)})

\* C35, as claimed: the step that dispatches an action appends one entry
\* describing it, and so does every step in which the retry loop makes a
\* further attempt.
C35_EntryPerAttempt ==
    [][ LET logs == bg.executionState.logs
            logs2 == bg'.executionState.logs
            first == \E c \in ChainIds : /\ svc = "B"
                                         /\ chains[c].pc = "oracle"
                                         /\ chains[c].origin = "start"
                                         /\ chains'[c] # chains[c]
            retry == \E c \in ChainIds : /\ chains'[c].pc = "send"
                                         /\ chains[c].pc # "send"
                                         /\ chains'[c].attempts > 0
        IN  /\ Has(bg'.ev, "dispatch")
                  => /\ Count(bg'.ev, "dispatch") = 1
                     /\ Has(logs2, DescriptionOf(After(bg'.ev, "dispatch")))
                     /\ Descriptions(logs2)
                            = 1 + (IF first THEN 0 ELSE Descriptions(logs))
            /\ retry => Descriptions(logs2) = Descriptions(logs) + 1 ]_vars

\* C35, amended: the step that dispatches an action appends one entry
\* describing it, before the first attempt; a step in which the retry loop
\* makes a further attempt appends none, so a dispatch that makes k
\* attempts appends one entry.
C35_OneEntryPerDispatch ==
    [][ LET logs == bg.executionState.logs
            logs2 == bg'.executionState.logs
            first == \E c \in ChainIds : /\ svc = "B"
                                         /\ chains[c].pc = "oracle"
                                         /\ chains[c].origin = "start"
                                         /\ chains'[c] # chains[c]
            retry == \E c \in ChainIds : /\ chains'[c].pc = "send"
                                         /\ chains[c].pc # "send"
                                         /\ chains'[c].attempts > 0
        IN  /\ Has(bg'.ev, "dispatch")
                  => /\ Count(bg'.ev, "dispatch") = 1
                     /\ Has(logs2, DescriptionOf(After(bg'.ev, "dispatch")))
                     /\ Descriptions(logs2)
                            = 1 + (IF first THEN 0 ELSE Descriptions(logs))
            /\ retry => logs2 = logs ]_vars

\* The retry loop makes its third attempt of the first dispatch of a running
\* task, and the log holds one entry that describes the action.
C35_Witness ==
    /\ svc = "B"
    /\ bg.executionState.status = "running"
    /\ gh.dispatched = 1
    /\ \E c \in ChainIds : chains[c].pc = "send" /\ chains[c].attempts = 2
    /\ Descriptions(bg.executionState.logs) = 1

\* C36: the status turns from another value into running only in the step
\* that accepts a StartTask.
C36_RunningOnlyByStart ==
    [][ ( /\ bg.executionState.status # "running"
          /\ bg'.executionState.status = "running" )
            => /\ LastOp(bg') = "START_TASK"
               /\ Has(bg'.ev, "accept") ]_vars

\* C37: at most one debounce timer of the background service is pending at
\* any time.
C37_OnePendingDelivery == Cardinality(Live(timers)) <= 1

\* C38: the load-complete signal of a tab whose navigation was rejected
\* causes no re-injection and no executor command, and leaves the task, the
\* execution state, the error budget and the readiness registry as they are.
C38_LateLoadIsIgnored ==
    [][ LastOp(bg') \in {"lateLoad", "lateSettled"}
            => /\ ~ Has(bg'.ev, "reinject")
               /\ ~ Has(bg'.ev, "send")
               /\ Engine(bg') = Engine(bg)
               /\ bg'.contentScriptReadyTabs = bg.contentScriptReadyTabs ]_vars

\* C39: when a StartTask is accepted after the task before it has ended
\* (the status is not running) and its oracle call is made, the accumulated
\* Store buffer of the AIClient is empty.
C39_StoreStartsEmpty ==
    [][ ( /\ bg.executionState.status # "running"
          /\ LastOp(bg') = "START_TASK"
          /\ Has(bg'.ev, "accept")
          /\ Has(bg'.ev, "oracle") )
            => ai'.currentStoredData = EmptyStr ]_vars

\* C10: from an empty buffer, Store "x" then Store "y" with append leaves
\* "x\ny", and a following Store "z" without append leaves "z".
C10_StoreRoundTrip ==
    /\ ( /\ Len(trace) >= 2
         /\ trace[1].action \in {StoreOf(Str("x"), FALSE), StoreOf(Str("x"), TRUE)}
         /\ trace[2].action = StoreOf(Str("y"), TRUE) )
       => /\ trace[1].stored = Str("x")
          /\ trace[2].stored = << Run("x", 1), Run("\n", 1), Run("y", 1) >>
          /\ ( /\ Len(trace) >= 3
               /\ trace[3].action = StoreOf(Str("z"), FALSE) )
             => trace[3].stored = Str("z")

C10_Witness ==
    /\ Len(trace) = 3
    /\ trace[1].action = StoreOf(Str("x"), FALSE)
    /\ trace[2].action = StoreOf(Str("y"), TRUE)
    /\ trace[3].action = StoreOf(Str("z"), FALSE)
    /\ ai.currentStoredData = Str("z")

====
